---- MODULE Spec2Model ----
(***************************************************************************)
(* Model of the fixposition driver's TF converter                          *)
(* (fixposition_driver_lib/src/tf.cpp) and of the ROS2 node's run loop     *)
(* (fixposition_driver_ros2/src/fixposition_driver_node.cpp).              *)
(*                                                                         *)
(* Numbers decoded from tokens are counted in tenths (the token "1.0" is   *)
(* the value 10).  Durations are counted in ticks of 1/TicksPerSecond s.   *)
(***************************************************************************)
EXTENDS Integers, Sequences, FiniteSets, TLC

VARIABLES
    msg_,       \* TfConverter::msg_, the retained TfData record
    msg_before, \* msg_ as it was when the last ConvertTokens call started
    obs_,       \* TfConverter::obs_, the registered observers, in order
    tokens,     \* argument of the last ConvertTokens call
    thrower,    \* position in obs_ of the observer that throws in the last call (0: none)
    calls,      \* observer invocations of the last call: <<[ob, data], ...>>
    outcome,    \* how the last ConvertTokens call ended
    pc,             \* FixpositionDriverNode::Run: the statement about to execute
    rclcpp_ok,      \* what rclcpp::ok() returns (FALSE once shutdown was requested)
    link_up,        \* environment: the link can be opened and read
    state,          \* connection state of the driver
    cfg_delay,      \* params_.fp_output.reconnect_delay, in ticks
    connection_ok,  \* Run's local: the result of the last RunOnce
    read_state,     \* connection state in which this iteration's RunOnce read the
                    \* link ("none": it did not read)
    connect_result, \* result of the last Connect made by the loop
    phases,         \* the calls Run has made in the current iteration, in order
    fail_age,       \* ticks since RunOnce last returned false (-1: never)
    connect_age,    \* ticks since the loop last called Connect (-1: never)
    failures,       \* consecutive failed reads and reopens, counted to MaxFailures
    ws_pending,     \* wheel speed messages received on ws_sub_ and not yet handled
    ws_served_in,   \* the statements of Run during which WsCallback ran in the
                    \* current iteration
    formats,        \* params_.fp_output.formats
    a_converters_,  \* FixpositionDriver::a_converters_: name -> "conv" or "null"
    converters_at_entry,    \* a_converters_ when RegisterObservers was entered
    observers,      \* the observers of each converter, by converter name
    bestgnsspos_obs_,   \* FixpositionDriver::bestgnsspos_obs_
    reg_outcome,    \* how the last RegisterObservers call ended
    subs,           \* get_subscription_count() of each publisher
    frame_id,       \* nav_sat_fix.frame_id of the last BESTGNSSPOS message
    published,      \* the publish calls of the last observer invocation, in order
    last_cb         \* the observer invoked last

tfvars == <<msg_, msg_before, obs_, tokens, thrower, calls, outcome>>

runvars == <<pc, rclcpp_ok, link_up, state, cfg_delay, connection_ok, read_state,
             connect_result, phases, fail_age, connect_age, failures>>

wsvars == <<ws_pending, ws_served_in>>

regvars == <<formats, a_converters_, converters_at_entry, observers, bestgnsspos_obs_, reg_outcome>>

pubvars == <<subs, frame_id, published, last_cb>>

vars == <<tfvars, runvars, wsvars, regvars, pubvars>>

----------------------------------------------------------------------------
(* Bounds *)

MaxObservers == 2       \* observers registered on the converter
LenSlack == 2           \* token counts from 12 - LenSlack to 12 + LenSlack
TicksPerSecond == 2     \* clock resolution
MaxDelayTicks == 4      \* configured reconnect delays: 0..MaxDelayTicks ticks
MaxOversleep == 1       \* a sleep lasts its duration plus up to MaxOversleep ticks
RatePeriodTicks == 1    \* the period of the fixed-rate loop, 1 / fp_output.rate
MaxReadTicks == 1       \* RunOnce blocks for up to MaxReadTicks ticks
MaxFailures == 3        \* consecutive failures counted
MaxWsPending == 1       \* wheel speed messages waiting to be handled
MaxFormats == 2         \* entries of params_.fp_output.formats
MaxSubs == 1            \* subscribers of one publisher

----------------------------------------------------------------------------
(* tf.cpp: msg field indices (0-based, as in the source) *)

msg_type_idx == 1
msg_version_idx == 2
from_frame_idx == 3
to_frame_idx == 4
translation_x_idx == 5
translation_y_idx == 6
translation_z_idx == 7
orientation_w_idx == 8
orientation_x_idx == 9
orientation_y_idx == 10
orientation_z_idx == 11

\* the field count ConvertTokens expects
kTfFields == 12

\* std::vector::at with a 0-based index
At(toks, idx) == toks[idx + 1]

----------------------------------------------------------------------------
(* Data *)

\* TfData(): the default/empty record
TfData ==
    [frame_id |-> "", child_frame_id |-> "",
     translation |-> <<0, 0, 0>>, rotation |-> <<10, 0, 0, 0>>]

\* text -> number (in tenths) for the numeric tokens of the model
NumValue ==
    [t \in {"0.0", "1.0", "2.0", "3.0", "0.5", "-0.5", "4.5", "-7.0"} |->
        CASE t = "0.0" -> 0
          [] t = "1.0" -> 10
          [] t = "2.0" -> 20
          [] t = "3.0" -> 30
          [] t = "0.5" -> 5
          [] t = "-0.5" -> 0 - 5
          [] t = "4.5" -> 45
          [] t = "-7.0" -> 0 - 70]

IsNumeric(t) == t \in DOMAIN NumValue

\* parse of one numeric token; only applied to numeric text
StringToDouble(t) == NumValue[t]

\* Vector3ToEigen / Vector4ToEigen: the parsed components, or a numeric parse
\* failure; the C++ signature returns the vector, so a failure leaves the call
\* by an exception (threw)
Vector3ToEigen(x, y, z) ==
    IF IsNumeric(x) /\ IsNumeric(y) /\ IsNumeric(z)
    THEN [threw |-> FALSE,
          value |-> <<StringToDouble(x), StringToDouble(y), StringToDouble(z)>>]
    ELSE [threw |-> TRUE, value |-> <<>>]

Vector4ToEigen(w, x, y, z) ==
    IF IsNumeric(w) /\ IsNumeric(x) /\ IsNumeric(y) /\ IsNumeric(z)
    THEN [threw |-> FALSE,
          value |-> <<StringToDouble(w), StringToDouble(x),
                      StringToDouble(y), StringToDouble(z)>>]
    ELSE [threw |-> TRUE, value |-> <<>>]

----------------------------------------------------------------------------
(* Inputs *)

FrameNames == {<<"POI", "ECEF">>, <<"VRTK", "IMUH">>}

\* tokens 5..11 of a frame: translation x, y, z and orientation w, x, y, z;
\* the last two carry a token that is not a number
Payloads ==
    {<<"1.0", "2.0", "3.0", "1.0", "0.0", "0.0", "0.0">>,
     <<"-0.5", "4.5", "-7.0", "0.5", "-0.5", "2.0", "3.0">>,
     <<"1.0", "abc", "3.0", "1.0", "0.0", "0.0", "0.0">>,
     <<"4.5", "0.5", "2.0", "1.0", "0.0", "xyz", "0.0">>}

\* a frame of kTfFields + LenSlack tokens (the tokens past the 12th are filler)
LongFrame(names, p) ==
    <<"$FP", "TF", "1">> \o names \o p \o [i \in 1..LenSlack |-> "x"]

\* every frame the model feeds to the converter
Frames ==
    { SubSeq(LongFrame(names, p), 1, n) :
        names \in FrameNames, p \in Payloads,
        n \in (kTfFields - LenSlack)..(kTfFields + LenSlack) }

\* the callbacks that can be registered (one may be registered twice)
ObserverIds == {"O1", "O2"}

----------------------------------------------------------------------------
(* TfConverter::ConvertTokens *)

\* mutant: only short frames are rejected
FieldCountErrorShortOnly(toks) == Len(toks) < kTfFields

\* tf.cpp:35, the field count test
FieldCountError(toks) == Len(toks) # kTfFields

\* tf.cpp:37, the record retained after a field count error
ResetMsg(msg) == TfData

\* tf.cpp:41-42, header stamps
FrameId(toks) == "FP_" \o At(toks, from_frame_idx)

ChildFrameId(toks) == "FP_" \o At(toks, to_frame_idx)

\* tf.cpp:44-45
Translation(toks) ==
    Vector3ToEigen(At(toks, translation_x_idx), At(toks, translation_y_idx),
                   At(toks, translation_z_idx))

\* mutant: the quaternion read vector-first (x, y, z, w)
RotationVectorFirst(toks) ==
    Vector4ToEigen(At(toks, orientation_x_idx), At(toks, orientation_y_idx),
                   At(toks, orientation_z_idx), At(toks, orientation_w_idx))

\* tf.cpp:46-47
Rotation(toks) ==
    Vector4ToEigen(At(toks, orientation_w_idx), At(toks, orientation_x_idx),
                   At(toks, orientation_y_idx), At(toks, orientation_z_idx))

\* tf.cpp:50-52, the loop over obs_ from position i on: each observer is called
\* with msg_; an exception thrown by an observer leaves the loop
RECURSIVE NotifyFrom(_, _, _, _, _)
NotifyFrom(i, obs, data, thr, acc) ==
    IF i > Len(obs)
    THEN [calls |-> acc, threw |-> FALSE]
    ELSE LET invoked == Append(acc, [ob |-> obs[i], data |-> data])
         IN  IF i = thr
             THEN [calls |-> invoked, threw |-> TRUE]
             ELSE NotifyFrom(i + 1, obs, data, thr, invoked)

\* mutant: the loop starts at the second observer
NotifySkipFirst(obs, data, thr) == NotifyFrom(2, obs, data, thr, <<>>)

Notify(obs, data, thr) == NotifyFrom(1, obs, data, thr, <<>>)

\* tf.cpp:34-53: the record retained, the observers invoked and how the call ends
ConvertTokens(msg, obs, toks, thr) ==
    IF FieldCountError(toks)
    THEN [msg |-> ResetMsg(msg), calls |-> <<>>, outcome |-> "field_count"]
    ELSE
      LET m1 == [msg EXCEPT !.frame_id = FrameId(toks)]
          m2 == [m1 EXCEPT !.child_frame_id = ChildFrameId(toks)]
          t  == Translation(toks)
          m3 == [m2 EXCEPT !.translation = t.value]
          r  == Rotation(toks)
          m4 == [m3 EXCEPT !.rotation = r.value]
          n  == Notify(obs, m4, thr)
      IN  IF t.threw
          THEN [msg |-> m2, calls |-> <<>>, outcome |-> "parse_exception"]
          ELSE IF r.threw
          THEN [msg |-> m3, calls |-> <<>>, outcome |-> "parse_exception"]
          ELSE [msg |-> m4, calls |-> n.calls,
                outcome |-> IF n.threw THEN "observer_exception" ELSE "returned"]

----------------------------------------------------------------------------
(* Actions of the converter *)

TfIdle ==
    /\ msg_ = TfData
    /\ msg_before = TfData
    /\ obs_ = <<>>
    /\ tokens = <<>>
    /\ thrower = 0
    /\ calls = <<>>
    /\ outcome = "none"

\* BaseConverter::AddObserver, during setup (before the first frame is decoded)
AddObserver ==
    /\ outcome = "none"
    /\ Len(obs_) < MaxObservers
    /\ \E ob \in ObserverIds : obs_' = Append(obs_, ob)
    /\ UNCHANGED <<msg_, msg_before, tokens, thrower, calls, outcome>>
    /\ UNCHANGED <<runvars, wsvars, regvars, pubvars>>

\* one call of ConvertTokens on a frame; thr is the observer that throws, if any
ConvertTokensCall ==
    \E f \in Frames, thr \in 0..Len(obs_) :
        LET r == ConvertTokens(msg_, obs_, f, thr)
        IN  /\ msg_before' = msg_
            /\ msg_' = r.msg
            /\ calls' = r.calls
            /\ outcome' = r.outcome
            /\ tokens' = f
            /\ thrower' = thr
            /\ UNCHANGED obs_
            /\ UNCHANGED <<runvars, wsvars, regvars, pubvars>>

----------------------------------------------------------------------------
(* The callbacks publishing on the node's publishers *)

\* the publishers the ODOMETRY observer and BestGnssPosToPublishNavSatFix
\* publish on (node.cpp:44-51, 53)
OdometryPublishers ==
    {"odometry_pub_", "odometry_enu0_pub_", "orientation_pub_", "vrtk_pub_",
     "eul_pub_", "poiimu_pub_"}

Publishers ==
    OdometryPublishers \cup {"navsatfix_gnss1_pub_", "navsatfix_gnss2_pub_"}

\* the frame ids NovToData can leave in nav_sat_fix.frame_id: the three names
\* tested at node.cpp:214-220, one other name and the empty name
FrameIds == {"GNSS1", "GNSS", "GNSS2", "GNSS3", ""}

\* pub->publish(msg) when pub->get_subscription_count() > 0
PublishIfSubscribed(pub, sc) == IF sc[pub] > 0 THEN <<pub>> ELSE <<>>

\* mutant: only the frame id "GNSS1" selects the gnss1 publisher
BestGnssPosGnss1Only(fid, sc) ==
    IF fid = "GNSS1"
    THEN PublishIfSubscribed("navsatfix_gnss1_pub_", sc)
    ELSE IF fid = "GNSS2"
    THEN PublishIfSubscribed("navsatfix_gnss2_pub_", sc)
    ELSE <<>>

\* node.cpp:207-227: the publishers published on, in order, for the decoded
\* frame id fid under the subscription counts sc
BestGnssPosToPublishNavSatFix(fid, sc) ==
    IF fid = "GNSS1" \/ fid = "GNSS"
    THEN PublishIfSubscribed("navsatfix_gnss1_pub_", sc)
    ELSE IF fid = "GNSS2"
    THEN PublishIfSubscribed("navsatfix_gnss2_pub_", sc)
    ELSE <<>>

\* node.cpp:95-136, the ODOMETRY observer: the publishers published on, in
\* order, for one decoded record under the subscription counts sc
OdometryObserver(sc) ==
    PublishIfSubscribed("odometry_pub_", sc)
    \o (IF sc["odometry_enu0_pub_"] > 0
        THEN <<"odometry_enu0_pub_", "orientation_pub_">>
        ELSE <<>>)
    \o PublishIfSubscribed("vrtk_pub_", sc)
    \o PublishIfSubscribed("eul_pub_", sc)
    \o PublishIfSubscribed("poiimu_pub_", sc)

\* no callback running, no publisher subscribed to
PubIdle ==
    /\ subs = [pub \in Publishers |-> 0]
    /\ frame_id = ""
    /\ published = <<>>
    /\ last_cb = "none"

\* environment: a subscriber joins or leaves a publisher's topic, between
\* callbacks
SubscriptionChange ==
    /\ last_cb = "none"
    /\ \E pub \in Publishers, n \in 0..MaxSubs :
        /\ n # subs[pub]
        /\ subs' = [subs EXCEPT ![pub] = n]
    /\ UNCHANGED <<frame_id, published, last_cb>>
    /\ UNCHANGED <<tfvars, runvars, wsvars, regvars>>

\* one call of BestGnssPosToPublishNavSatFix, NovToData having decoded some
\* frame id
BestGnssPosCall ==
    /\ last_cb = "none"
    /\ \E fid \in FrameIds :
        /\ frame_id' = fid
        /\ published' = BestGnssPosToPublishNavSatFix(fid, subs)
    /\ last_cb' = "BESTGNSSPOS"
    /\ UNCHANGED subs
    /\ UNCHANGED <<tfvars, runvars, wsvars, regvars>>

\* one call of the ODOMETRY observer
OdometryObserverCall ==
    /\ last_cb = "none"
    /\ published' = OdometryObserver(subs)
    /\ last_cb' = "ODOMETRY"
    /\ UNCHANGED <<subs, frame_id>>
    /\ UNCHANGED <<tfvars, runvars, wsvars, regvars>>

\* node.cpp:136 and 227: the callback returns
CallbackReturn ==
    /\ last_cb # "none"
    /\ last_cb' = "none"
    /\ published' = <<>>
    /\ frame_id' = ""
    /\ UNCHANGED subs
    /\ UNCHANGED <<tfvars, runvars, wsvars, regvars>>

----------------------------------------------------------------------------
(* FixpositionDriverNode::RegisterObservers *)

\* the names under which a_converters_ holds the FP_A converters
ConverterNames == {"ODOMETRY", "LLH", "RAWIMU", "CORRIMU", "TF"}

\* the format names of the configuration: the five above and one unknown name
FormatNames == ConverterNames \cup {"NMEA"}

\* the lists params_.fp_output.formats can hold
FormatLists == UNION { [1..n -> FormatNames] : n \in 0..MaxFormats }

\* the converter maps: each name absent, or mapped to a converter or to null
ConverterMaps ==
    UNION { [present -> {"conv", "null"}] : present \in SUBSET ConverterNames }

\* the map with a converter for each name
AllConverters == [name \in ConverterNames |-> "conv"]

NoObservers == [name \in ConverterNames |-> <<>>]

\* std::map::operator[]: a missing key is inserted with a null pointer
Subscript(map, name) ==
    IF name \in DOMAIN map
    THEN map
    ELSE [k \in DOMAIN map \cup {name} |-> IF k = name THEN "null" ELSE map[k]]

\* mutant: the CORRIMU branch addresses the RAWIMU converter
BranchConverterCopied(format) ==
    IF format = "CORRIMU" THEN "RAWIMU"
    ELSE IF format \in ConverterNames THEN format ELSE "none"

\* node.cpp:93-174: the converter the branch taken for a format looks up in
\* a_converters_ ("none": no branch tests for the format)
BranchConverter(format) ==
    IF format \in ConverterNames THEN format ELSE "none"

\* node.cpp:152: only the LLH branch tests the pointer it looked up
BranchTestsPointer(format) == format = "LLH"

\* node.cpp:92-197, the loop from entry i on.  r holds the converter map, the
\* observers and the outcome so far; ub is what dereferencing a null converter
\* does in this run: "crash" ends the process, "skip" goes on without an
\* observer registered
RECURSIVE RegisterFrom(_, _, _, _)
RegisterFrom(i, fmts, r, ub) ==
    IF i > Len(fmts) \/ r.outcome # "returned"
    THEN r
    ELSE
      LET name == BranchConverter(fmts[i])
          map  == IF name = "none" THEN r.map ELSE Subscript(r.map, name)
          ob   == [lambda |-> fmts[i], entry |-> i]
      IN  IF name = "none"
          THEN RegisterFrom(i + 1, fmts, r, ub)
          ELSE IF map[name] = "conv"
          THEN RegisterFrom(i + 1, fmts,
                   [r EXCEPT !.map = map,
                             !.obs[name] = Append(r.obs[name], ob)], ub)
          ELSE IF BranchTestsPointer(fmts[i])
          THEN RegisterFrom(i + 1, fmts, [r EXCEPT !.map = map], ub)
          ELSE IF ub = "crash"
          THEN [r EXCEPT !.map = map, !.outcome = "null_dereference"]
          ELSE RegisterFrom(i + 1, fmts,
                   [r EXCEPT !.map = map, !.undefined = TRUE], ub)

\* node.cpp:87-198: bestgnsspos_obs_.push_back, then the loop over the formats
RegisterObservers(fmts, map, obs, nov, ub) ==
    LET r == RegisterFrom(1, fmts,
                 [map |-> map, obs |-> obs, outcome |-> "returned",
                  undefined |-> FALSE], ub)
    IN  [map |-> r.map, obs |-> r.obs,
         nov |-> Append(nov, "BestGnssPosToPublishNavSatFix"),
         outcome |-> IF r.undefined THEN "undefined" ELSE r.outcome]

RegIdle ==
    /\ formats = <<>>
    /\ a_converters_ = AllConverters
    /\ converters_at_entry = AllConverters
    /\ observers = NoObservers
    /\ bestgnsspos_obs_ = <<>>
    /\ reg_outcome = "none"

WsIdle ==
    /\ ws_pending = 0
    /\ ws_served_in = {}

\* the node before RegisterObservers is called, for every configuration and
\* converter map
RegEntry ==
    /\ TfIdle
    /\ PubIdle
    /\ formats \in FormatLists
    /\ a_converters_ \in ConverterMaps
    /\ converters_at_entry = a_converters_
    /\ observers = [name \in ConverterNames |-> <<>>]
    /\ bestgnsspos_obs_ = <<>>
    /\ reg_outcome = "none"

\* one call of RegisterObservers
RegisterObserversCall ==
    /\ reg_outcome = "none"
    /\ \E ub \in {"crash", "skip"} :
        LET r == RegisterObservers(formats, a_converters_, observers,
                                   bestgnsspos_obs_, ub)
        IN  /\ a_converters_' = r.map
            /\ observers' = r.obs
            /\ bestgnsspos_obs_' = r.nov
            /\ reg_outcome' = r.outcome
    /\ UNCHANGED <<formats, converters_at_entry>>
    /\ UNCHANGED <<tfvars, runvars, wsvars, pubvars>>

----------------------------------------------------------------------------
(* FixpositionDriverNode::Run *)

\* the longest age the clocks record
AgeCap == MaxDelayTicks + MaxOversleep + RatePeriodTicks + MaxReadTicks + 1

\* an age t ticks later (ages saturate at AgeCap; -1 stays "never")
Later(age, t) ==
    IF age = -1 THEN -1 ELSE IF age + t > AgeCap THEN AgeCap ELSE age + t

\* (uint64_t) of a non-negative double given in ticks: whole seconds, the
\* fraction dropped
ToUint64(d) == d \div TicksPerSecond

\* mutant: the product is converted, not the seconds
ReconnectDelayExact(d) == d

\* node.cpp:67-68: reconnect_delay, the cast applied to the seconds before the
\* product; the factor 1000 * 1000 * 1000 (ns per s) is TicksPerSecond here
ReconnectDelay(d) == ToUint64(d) * TicksPerSecond

\* FixpositionDriver::Connect: opens the link; TRUE on success
Connect(up) == up

\* the connection state a Connect attempt leaves
StateAfterConnect(opened) == IF opened THEN "Connected" ELSE "Disconnected"

\* FixpositionDriver::RunOnce: one read/decode cycle while Connected (decode
\* errors are recovered inside it); a read that signals link failure enters
\* Disconnected; FALSE reports link failure
RunOnce(st, up) ==
    IF st = "Connected"
    THEN [read_state |-> st, ok |-> up,
          state |-> IF up THEN "Connected" ELSE "Disconnected"]
    ELSE [read_state |-> "none", ok |-> FALSE, state |-> st]

Count(n) == IF n < MaxFailures THEN n + 1 ELSE MaxFailures

RunIdle ==
    /\ pc = "while"
    /\ rclcpp_ok = TRUE
    /\ link_up = TRUE
    /\ state = "Connected"
    /\ cfg_delay = 0
    /\ connection_ok = TRUE
    /\ read_state = "none"
    /\ connect_result = "none"
    /\ phases = <<>>
    /\ fail_age = -1
    /\ connect_age = -1
    /\ failures = 0
    /\ WsIdle

\* the format lists of the configurations the run loop is started with
RunFormats == {<<"ODOMETRY", "TF">>, <<"LLH", "LLH">>}

\* node.cpp:38-63 and 66-68: the node after construction (Connect, then
\* RegisterObservers) with Run entered
RunInit ==
    /\ TfIdle
    /\ WsIdle
    /\ PubIdle
    /\ formats \in RunFormats
    /\ converters_at_entry = AllConverters
    /\ LET r == RegisterObservers(formats, AllConverters, NoObservers, <<>>, "crash")
       IN  /\ a_converters_ = r.map
           /\ observers = r.obs
           /\ bestgnsspos_obs_ = r.nov
           /\ reg_outcome = r.outcome
    /\ pc = "while"
    /\ rclcpp_ok = TRUE
    /\ link_up \in BOOLEAN
    /\ state = StateAfterConnect(Connect(link_up))
    /\ cfg_delay \in 0..MaxDelayTicks
    /\ connection_ok = TRUE
    /\ read_state = "none"
    /\ connect_result = "none"
    /\ phases = <<>>
    /\ fail_age = -1
    /\ connect_age = -1
    /\ failures = 0

\* node.cpp:70, while (rclcpp::ok())
RunWhile ==
    /\ pc = "while"
    /\ pc' = IF rclcpp_ok THEN "RunOnce" ELSE "done"
    /\ phases' = <<>>
    /\ read_state' = "none"
    /\ ws_served_in' = {}
    /\ UNCHANGED ws_pending
    /\ UNCHANGED <<rclcpp_ok, link_up, state, cfg_delay, connection_ok,
                   connect_result, fail_age, connect_age, failures>>
    /\ UNCHANGED <<tfvars, regvars, pubvars>>

\* mutant: the read cycle also handles the waiting wheel speed messages
RunRunOnceSpins ==
    /\ pc = "RunOnce"
    /\ \E t \in 0..MaxReadTicks :
        LET r == RunOnce(state, link_up)
        IN  /\ connection_ok' = r.ok
            /\ state' = r.state
            /\ read_state' = r.read_state
            /\ fail_age' = IF r.ok THEN Later(fail_age, t) ELSE 0
            /\ connect_age' = Later(connect_age, t)
            /\ failures' = IF r.ok THEN 0 ELSE Count(failures)
    /\ phases' = Append(phases, "RunOnce")
    /\ pc' = "spin_some"
    /\ UNCHANGED <<rclcpp_ok, link_up, cfg_delay, connect_result>>
    /\ ws_pending' = 0
    /\ ws_served_in' = IF ws_pending > 0 THEN ws_served_in \cup {"RunOnce"}
                       ELSE ws_served_in
    /\ UNCHANGED <<tfvars, regvars, pubvars>>

\* node.cpp:72, connection_ok = RunOnce()
RunRunOnce ==
    /\ pc = "RunOnce"
    /\ \E t \in 0..MaxReadTicks :
        LET r == RunOnce(state, link_up)
        IN  /\ connection_ok' = r.ok
            /\ state' = r.state
            /\ read_state' = r.read_state
            /\ fail_age' = IF r.ok THEN Later(fail_age, t) ELSE 0
            /\ connect_age' = Later(connect_age, t)
            /\ failures' = IF r.ok THEN 0 ELSE Count(failures)
    /\ phases' = Append(phases, "RunOnce")
    /\ pc' = "spin_some"
    /\ UNCHANGED <<rclcpp_ok, link_up, cfg_delay, connect_result>>
    /\ UNCHANGED <<tfvars, wsvars, regvars, pubvars>>

\* node.cpp:74, rclcpp::spin_some(node_)
\* rclcpp::spin_some on node_, whose only subscription is ws_sub_ (node.cpp:57-59):
\* WsCallback (node.cpp:203-205) runs once for each waiting message
SpinSome(pending) == [pending |-> 0, handled |-> pending]

RunSpinSome ==
    /\ pc = "spin_some"
    /\ phases' = Append(phases, "spin_some")
    /\ ws_pending' = SpinSome(ws_pending).pending
    /\ ws_served_in' =
          IF SpinSome(ws_pending).handled > 0
          THEN ws_served_in \cup {"spin_some"}
          ELSE ws_served_in
    /\ pc' = "if"
    /\ UNCHANGED <<rclcpp_ok, link_up, state, cfg_delay, connection_ok, read_state,
                   connect_result, fail_age, connect_age, failures>>
    /\ UNCHANGED <<tfvars, regvars, pubvars>>

\* mutant: the test without its negation
RunIfInverted ==
    /\ pc = "if"
    /\ pc' = IF connection_ok THEN "sleep_for" ELSE "rate.sleep"
    /\ UNCHANGED <<rclcpp_ok, link_up, state, cfg_delay, connection_ok, read_state,
                   connect_result, phases, fail_age, connect_age, failures>>
    /\ UNCHANGED <<tfvars, wsvars, regvars, pubvars>>

\* node.cpp:76, if (!connection_ok)
RunIf ==
    /\ pc = "if"
    /\ pc' = IF ~connection_ok THEN "sleep_for" ELSE "rate.sleep"
    /\ UNCHANGED <<rclcpp_ok, link_up, state, cfg_delay, connection_ok, read_state,
                   connect_result, phases, fail_age, connect_age, failures>>
    /\ UNCHANGED <<tfvars, wsvars, regvars, pubvars>>

\* mutant: the delay is not followed by the reopen
RunSleepForNoReopen ==
    /\ pc = "sleep_for"
    /\ \E over \in 0..MaxOversleep :
        /\ fail_age' = Later(fail_age, ReconnectDelay(cfg_delay) + over)
        /\ connect_age' = Later(connect_age, ReconnectDelay(cfg_delay) + over)
    /\ phases' = Append(phases, "sleep_for")
    /\ pc' = "while"
    /\ UNCHANGED <<rclcpp_ok, link_up, state, cfg_delay, connection_ok, read_state,
                   connect_result, failures>>
    /\ UNCHANGED <<tfvars, wsvars, regvars, pubvars>>

\* node.cpp:77-79, rclcpp::sleep_for(reconnect_delay)
RunSleepFor ==
    /\ pc = "sleep_for"
    /\ \E over \in 0..MaxOversleep :
        /\ fail_age' = Later(fail_age, ReconnectDelay(cfg_delay) + over)
        /\ connect_age' = Later(connect_age, ReconnectDelay(cfg_delay) + over)
    /\ phases' = Append(phases, "sleep_for")
    /\ pc' = "Connect"
    /\ UNCHANGED <<rclcpp_ok, link_up, state, cfg_delay, connection_ok, read_state,
                   connect_result, failures>>
    /\ UNCHANGED <<tfvars, wsvars, regvars, pubvars>>

\* mutant: a failed reopen ends the loop
RunConnectFatal ==
    /\ pc = "Connect"
    /\ state' = StateAfterConnect(Connect(link_up))
    /\ connect_result' = IF Connect(link_up) THEN "ok" ELSE "failed"
    /\ failures' = IF Connect(link_up) THEN failures ELSE Count(failures)
    /\ connect_age' = 0
    /\ phases' = Append(phases, "Connect")
    /\ pc' = IF Connect(link_up) THEN "while" ELSE "done"
    /\ UNCHANGED <<rclcpp_ok, link_up, cfg_delay, connection_ok, read_state, fail_age>>
    /\ UNCHANGED <<tfvars, wsvars, regvars, pubvars>>

\* mutant: the rate limiter runs after the if/else, also after a reconnect
RunConnectThenRateSleep ==
    /\ pc = "Connect"
    /\ state' = StateAfterConnect(Connect(link_up))
    /\ connect_result' = IF Connect(link_up) THEN "ok" ELSE "failed"
    /\ failures' = IF Connect(link_up) THEN failures ELSE Count(failures)
    /\ connect_age' = 0
    /\ phases' = Append(phases, "Connect")
    /\ pc' = "rate.sleep"
    /\ UNCHANGED <<rclcpp_ok, link_up, cfg_delay, connection_ok, read_state, fail_age>>
    /\ UNCHANGED <<tfvars, wsvars, regvars, pubvars>>

\* mutant: the observers are registered again after each reopen
RunConnectRegisters ==
    /\ pc = "Connect"
    /\ state' = StateAfterConnect(Connect(link_up))
    /\ connect_result' = IF Connect(link_up) THEN "ok" ELSE "failed"
    /\ failures' = IF Connect(link_up) THEN failures ELSE Count(failures)
    /\ connect_age' = 0
    /\ phases' = Append(phases, "Connect")
    /\ pc' = "while"
    /\ UNCHANGED <<rclcpp_ok, link_up, cfg_delay, connection_ok, read_state, fail_age>>
    /\ LET r == RegisterObservers(formats, a_converters_, observers,
                                  bestgnsspos_obs_, "crash")
       IN  /\ a_converters_' = r.map
           /\ observers' = r.obs
           /\ bestgnsspos_obs_' = r.nov
    /\ UNCHANGED <<formats, converters_at_entry, reg_outcome>>
    /\ UNCHANGED <<tfvars, wsvars, pubvars>>

\* node.cpp:80, Connect(); its result is not used
RunConnect ==
    /\ pc = "Connect"
    /\ state' = StateAfterConnect(Connect(link_up))
    /\ connect_result' = IF Connect(link_up) THEN "ok" ELSE "failed"
    /\ failures' = IF Connect(link_up) THEN failures ELSE Count(failures)
    /\ connect_age' = 0
    /\ phases' = Append(phases, "Connect")
    /\ pc' = "while"
    /\ UNCHANGED <<rclcpp_ok, link_up, cfg_delay, connection_ok, read_state, fail_age>>
    /\ UNCHANGED <<tfvars, wsvars, regvars, pubvars>>

\* mutant: the rate sleep ends the loop when shutdown was requested meanwhile
RunRateSleepCancellable ==
    /\ pc = "rate.sleep"
    /\ \E t \in 0..RatePeriodTicks :
        /\ fail_age' = Later(fail_age, t)
        /\ connect_age' = Later(connect_age, t)
    /\ phases' = IF rclcpp_ok THEN Append(phases, "rate.sleep") ELSE phases
    /\ pc' = IF rclcpp_ok THEN "while" ELSE "done"
    /\ UNCHANGED <<rclcpp_ok, link_up, state, cfg_delay, connection_ok, read_state,
                   connect_result, failures>>
    /\ UNCHANGED <<tfvars, wsvars, regvars, pubvars>>

\* node.cpp:82, rate.sleep(): the rest of the period
RunRateSleep ==
    /\ pc = "rate.sleep"
    /\ \E t \in 0..RatePeriodTicks :
        /\ fail_age' = Later(fail_age, t)
        /\ connect_age' = Later(connect_age, t)
    /\ phases' = Append(phases, "rate.sleep")
    /\ pc' = "while"
    /\ UNCHANGED <<rclcpp_ok, link_up, state, cfg_delay, connection_ok, read_state,
                   connect_result, failures>>
    /\ UNCHANGED <<tfvars, wsvars, regvars, pubvars>>

\* one step of Run
RunStep ==
    RunWhile \/ RunRunOnce \/ RunSpinSome \/ RunIf \/ RunSleepFor \/ RunConnect
        \/ RunRateSleep

\* environment: shutdown is requested (rclcpp::ok() is false from then on)
Shutdown ==
    /\ rclcpp_ok
    /\ rclcpp_ok' = FALSE
    /\ UNCHANGED <<pc, link_up, state, cfg_delay, connection_ok, read_state,
                   connect_result, phases, fail_age, connect_age, failures>>
    /\ UNCHANGED <<tfvars, wsvars, regvars, pubvars>>

\* environment: the link goes down or comes back
LinkChange ==
    /\ pc # "done"
    /\ link_up' = ~link_up
    /\ UNCHANGED <<pc, rclcpp_ok, state, cfg_delay, connection_ok, read_state,
                   connect_result, phases, fail_age, connect_age, failures>>
    /\ UNCHANGED <<tfvars, wsvars, regvars, pubvars>>

\* environment: a wheel speed message arrives on the topic of ws_sub_
WsArrive ==
    /\ pc # "done"
    /\ ws_pending < MaxWsPending
    /\ ws_pending' = ws_pending + 1
    /\ UNCHANGED ws_served_in
    /\ UNCHANGED <<tfvars, runvars, regvars, pubvars>>

RunNext ==
    \/ RunWhile
    \/ RunRunOnce
    \/ RunSpinSome
    \/ RunIf
    \/ RunSleepFor
    \/ RunConnect
    \/ RunRateSleep
    \/ Shutdown
    \/ LinkChange
    \/ WsArrive

SpecRun == RunInit /\ [][RunNext]_vars

\* the thread that executes Run keeps running and every sleep and call returns
SpecRunFair == SpecRun /\ WF_vars(RunStep)

RegNext == RegisterObserversCall

\* RegisterObservers alone, the run loop not started
RegInit == RegEntry /\ RunIdle

SpecReg == RegInit /\ [][RegNext]_vars

\* the converter alone, the run loop not started
TfInit == TfIdle /\ RunIdle /\ RegIdle /\ PubIdle

TfNext == AddObserver \/ ConvertTokensCall

SpecTf == TfInit /\ [][TfNext]_vars

PubInit == TfIdle /\ RunIdle /\ RegIdle /\ PubIdle

PubNext ==
    \/ SubscriptionChange
    \/ BestGnssPosCall
    \/ OdometryObserverCall
    \/ CallbackReturn

SpecPub == PubInit /\ [][PubNext]_vars

----------------------------------------------------------------------------
(* Properties of TfConverter::ConvertTokens *)

\* a ConvertTokens call has been made
Called == outcome # "none"

\* the 0-based positions of the numeric fields
NumericIdx == translation_x_idx..orientation_z_idx

AllNumeric(toks) == \A i \in NumericIdx : IsNumeric(At(toks, i))

\* the decode of the last frame succeeded (the observers were reached)
Decoded == outcome \in {"returned", "observer_exception"}

ExampleFrame ==
    <<"$FP", "TF", "1", "POI", "ECEF", "1.0", "2.0", "3.0", "1.0", "0.0", "0.0", "0.0">>

\* C1: after a call with a token count other than 12 no observer has been
\* invoked and the retained record is the default TfData, whatever was retained
\* before the call.
C1_FieldCountMismatchResets ==
    (Called /\ Len(tokens) # 12) => (calls = <<>> /\ msg_ = TfData)

\* C1 witness: the 10-token prefix of the example frame, on a converter with
\* observers that retained a decoded record before the call.
C1_Witness ==
    /\ tokens = SubSeq(ExampleFrame, 1, 10)
    /\ outcome = "field_count"
    /\ obs_ # <<>>
    /\ msg_before # TfData
    /\ msg_ = TfData

\* C2: a call that decodes its frame and returns has invoked each registered
\* observer exactly once, in registration order, each with the newly decoded
\* record (the one the converter retains).
C2_NotifyAllInOrder ==
    outcome = "returned" =>
        calls = [i \in 1..Len(obs_) |-> [ob |-> obs_[i], data |-> msg_]]

\* C2 witness: two different observers notified, in order, by a returned call.
C2_Witness ==
    /\ outcome = "returned"
    /\ Len(obs_) >= 2
    /\ obs_[1] # obs_[2]
    /\ Len(calls) = Len(obs_)
    /\ calls[1].ob = obs_[1]
    /\ calls[2].ob = obs_[2]

\* C3 (as claimed): when an observer throws during the notification of a
\* decoded record, the observers registered after it are still invoked and the
\* exception does not leave ConvertTokens.
C3_ObserverFailureIsolated ==
    (Decoded /\ thrower # 0) =>
        (Len(calls) = Len(obs_) /\ outcome # "observer_exception")

\* C4: a 12-token frame with numeric tokens at indices 5..11 leaves a record
\* with frame_id "FP_" + token[3], child_frame_id "FP_" + token[4], translation
\* parsed from tokens[5..7] and rotation (w,x,y,z) parsed from tokens[8..11];
\* the example frame gives FP_POI, FP_ECEF, (1,2,3), (1,0,0,0).
C4_FieldMapping ==
    (Called /\ Len(tokens) = 12 /\ AllNumeric(tokens)) =>
        /\ msg_.frame_id = "FP_" \o tokens[4]
        /\ msg_.child_frame_id = "FP_" \o tokens[5]
        /\ msg_.translation =
              <<NumValue[tokens[6]], NumValue[tokens[7]], NumValue[tokens[8]]>>
        /\ msg_.rotation =
              <<NumValue[tokens[9]], NumValue[tokens[10]],
                NumValue[tokens[11]], NumValue[tokens[12]]>>
        /\ \A i \in 1..Len(calls) : calls[i].data = msg_
        /\ (tokens = ExampleFrame =>
               msg_ = [frame_id |-> "FP_POI", child_frame_id |-> "FP_ECEF",
                       translation |-> <<10, 20, 30>>,
                       rotation |-> <<10, 0, 0, 0>>])

\* C4 witness: the example frame decoded and delivered to an observer.
C4_Witness ==
    /\ tokens = ExampleFrame
    /\ outcome = "returned"
    /\ calls # <<>>
    /\ msg_.frame_id = "FP_POI"
    /\ msg_.translation = <<10, 20, 30>>

\* C5 (as claimed): after a 12-token frame with a non-numeric token at one of
\* the indices 5..11 no observer has been invoked and the retained record is
\* the default TfData.
C5_ParseFailureResets ==
    (Called /\ Len(tokens) = 12 /\ ~AllNumeric(tokens)) =>
        (calls = <<>> /\ msg_ = TfData)

\* C6 (as claimed): the result of decoding a frame does not depend on the
\* frames decoded before it: the observers invoked, the way the call ends and
\* the record retained are those of a converter that decodes the frame first.
C6_HistoryIndependent ==
    Called =>
        LET fresh == ConvertTokens(TfData, obs_, tokens, thrower)
        IN  /\ calls = fresh.calls
            /\ outcome = fresh.outcome
            /\ msg_ = fresh.msg

----------------------------------------------------------------------------
(* Properties of FixpositionDriverNode::Run *)

\* C7 (as claimed): when the loop calls Connect, at least the configured
\* reconnect delay has passed since the read failure that led to it and since
\* the loop's previous Connect.
C7_ReopenAfterFullDelay ==
    pc = "Connect" =>
        /\ fail_age >= cfg_delay
        /\ (connect_age # -1 => connect_age >= cfg_delay)

C9_ExactlyOneWait ==
    (pc = "while" /\ phases # <<>>) =>
        phases = IF connection_ok
                 THEN <<"RunOnce", "spin_some", "rate.sleep">>
                 ELSE <<"RunOnce", "spin_some", "sleep_for", "Connect">>

\* C9 witness: an iteration that found the link failed has finished with the
\* delay and one reopen and without the rate sleep.
C9_Witness ==
    /\ pc = "while"
    /\ ~connection_ok
    /\ phases = <<"RunOnce", "spin_some", "sleep_for", "Connect">>

\* C10: Run has returned only if rclcpp::ok() was false, and until it returns
\* the loop always has a next step, whatever reads and reopens have failed.
C10_RunReturnsOnlyOnStop ==
    /\ (pc = "done" => ~rclcpp_ok)
    /\ (pc # "done" => ENABLED RunStep)

\* C10 witness: after MaxFailures consecutive failed reads and reopens the
\* loop starts another iteration.
C10_Witness ==
    /\ failures = MaxFailures
    /\ connect_result = "failed"
    /\ rclcpp_ok
    /\ pc = "RunOnce"

\* the loop has just made a reopen attempt
Reopened == pc = "while" /\ phases = <<"RunOnce", "spin_some", "sleep_for", "Connect">>

\* C11: every read failure is eventually followed by a reopen attempt; if the
\* link stays down and no stop is signalled, reopen attempts recur for ever; if
\* the link stays up and no stop is signalled, the loop ends up Connected and
\* in fixed-rate cycles.
C11_RecoveryIsLive ==
    /\ ((pc = "spin_some" /\ ~connection_ok) ~> Reopened)
    /\ (<>[](~link_up /\ rclcpp_ok) => []<>Reopened)
    /\ (<>[](link_up /\ rclcpp_ok) =>
            (<>[](state = "Connected") /\ []<>(pc = "rate.sleep")))

\* C11 witness: after failures a reopen succeeded and the loop is in a healthy
\* cycle, at its rate sleep.
C11_Witness ==
    /\ connect_result = "ok"
    /\ pc = "rate.sleep"
    /\ state = "Connected"
    /\ connection_ok
    /\ rclcpp_ok

\* C12 (as claimed): the duration Run passes to sleep_for is the configured
\* reconnect delay, fractional seconds included.
C12_WaitIsConfiguredDelay ==
    pc = "sleep_for" => ReconnectDelay(cfg_delay) = cfg_delay

\* C14: Run returns only from the test at the start of an iteration, and only
\* when that test finds rclcpp::ok() false; an iteration starts only when the
\* test finds it true; a started iteration goes on to its next statement also
\* after a stop was signalled; once Run has returned nothing more is executed.
C14_CooperativeCancellation ==
    [][ /\ (pc' = "done" => (pc = "done" \/ (pc = "while" /\ ~rclcpp_ok)))
        /\ ((pc = "while" /\ pc' = "RunOnce") => rclcpp_ok)
        /\ ((pc = "while" /\ ~rclcpp_ok) => pc' \in {"while", "done"})
        /\ (pc = "done" => pc' = "done")
        /\ (pc \notin {"while", "done"} => ENABLED RunStep) ]_vars

\* C14 witness: stop was signalled during an iteration, which was nevertheless
\* completed, reconnect included.
C14_Witness ==
    /\ ~rclcpp_ok
    /\ pc = "while"
    /\ phases = <<"RunOnce", "spin_some", "sleep_for", "Connect">>

\* the observers a format list asks for on the converter called name: one for
\* each entry of that name, in list order
ObserversFor(fmts, name) ==
    LET idx == [i \in 1..Len(fmts) |-> i]
        sel == SelectSeq(idx, LAMBDA i : fmts[i] = name)
    IN  [j \in 1..Len(sel) |-> [lambda |-> name, entry |-> sel[j]]]

\* every entry of the format list that names a converter finds one in the map
\* RegisterObservers was entered with
ConvertersPresent ==
    \A i \in 1..Len(formats) :
        formats[i] \in ConverterNames =>
            /\ formats[i] \in DOMAIN converters_at_entry
            /\ converters_at_entry[formats[i]] = "conv"

\* C16: with a converter for each configured format, RegisterObservers
\* returns having appended to each converter one observer per entry of its
\* name, in list order and with repeats kept; entries of any other name add
\* nothing; and bestgnsspos_obs_ holds exactly one observer whatever the list
C16_OneObserverPerEntry ==
    (reg_outcome # "none" /\ ConvertersPresent) =>
        /\ reg_outcome = "returned"
        /\ \A name \in ConverterNames :
               observers[name] = ObserversFor(formats, name)
        /\ bestgnsspos_obs_ = <<"BestGnssPosToPublishNavSatFix">>

\* a format listed twice got two observers, in list order
C16_Witness ==
    /\ reg_outcome = "returned"
    /\ formats = <<"CORRIMU", "CORRIMU">>
    /\ observers["CORRIMU"] = <<[lambda |-> "CORRIMU", entry |-> 1],
                                [lambda |-> "CORRIMU", entry |-> 2]>>
    /\ observers["RAWIMU"] = <<>>
    /\ Len(bestgnsspos_obs_) = 1

\* C17: for every converter map RegisterObservers returns, registers nothing
\* for a format whose converter is absent or null, whichever of the five
\* names it is, and leaves the keys of the converter map as they were
C17_SafeForEveryConverterMap ==
    reg_outcome # "none" =>
        /\ reg_outcome = "returned"
        /\ \A name \in ConverterNames :
               (name \notin DOMAIN converters_at_entry
                    \/ converters_at_entry[name] = "null")
                   => observers[name] = <<>>
        /\ DOMAIN a_converters_ = DOMAIN converters_at_entry

\* the phases of one iteration of the loop of Run, in the order of node.cpp
PhaseOrders ==
    { <<"RunOnce", "spin_some", "rate.sleep">>,
      <<"RunOnce", "spin_some", "sleep_for", "Connect">> }

IsPrefix(p, q) == Len(p) <= Len(q) /\ p = SubSeq(q, 1, Len(p))

\* C13: the phases of an iteration run in a fixed order, RunOnce, then
\* exactly one spin_some, then the wait (rate.sleep, or sleep_for and
\* Connect); wheel speed messages are handled in spin_some only, never
\* during RunOnce
C13_PhaseOrder ==
    /\ \E order \in PhaseOrders : IsPrefix(phases, order)
    /\ (pc = "while" /\ phases # <<>>) => phases \in PhaseOrders
    /\ pc = "spin_some" => phases = <<"RunOnce">>
    /\ pc \in {"if", "sleep_for", "rate.sleep"} =>
           phases = <<"RunOnce", "spin_some">>
    /\ pc = "Connect" => phases = <<"RunOnce", "spin_some", "sleep_for">>
    /\ ws_served_in \subseteq {"spin_some"}
    /\ pc \in {"RunOnce", "spin_some"} => ws_served_in = {}

\* an iteration that handled a wheel speed message and then slept for the
\* rate period
C13_Witness ==
    /\ pc = "while"
    /\ phases = <<"RunOnce", "spin_some", "rate.sleep">>
    /\ ws_served_in = {"spin_some"}

\* C15: the observers are all registered when Run starts, and no step of Run
\* (the read cycle, the handling of wheel speed messages, the wait, the
\* reconnect) adds, removes or reorders an observer of any converter
C15_RegistriesFixed ==
    /\ [](/\ reg_outcome = "returned"
          /\ \A name \in ConverterNames :
                 observers[name] = ObserversFor(formats, name)
          /\ Len(bestgnsspos_obs_) = 1)
    /\ [][/\ observers' = observers
          /\ bestgnsspos_obs_' = bestgnsspos_obs_
          /\ obs_' = obs_]_vars

\* a reconnect after a wheel speed message was handled, the two LLH
\* observers still registered
C15_Witness ==
    /\ pc = "while"
    /\ phases = <<"RunOnce", "spin_some", "sleep_for", "Connect">>
    /\ ws_served_in = {"spin_some"}
    /\ Len(observers["LLH"]) = 2

\* how often publisher pub was published on
Occurrences(seq, pub) == Cardinality({i \in DOMAIN seq : seq[i] = pub})

\* C18: a call of BestGnssPosToPublishNavSatFix publishes at most one
\* NavSatFix: on gnss1 exactly when the frame id is "GNSS1" or "GNSS" and
\* gnss1 has a subscriber, on gnss2 exactly when the frame id is "GNSS2" and
\* gnss2 has a subscriber, and nothing for any other frame id
C18_AtMostOneNavSatFix ==
    last_cb = "BESTGNSSPOS" =>
        /\ Len(published) <= 1
        /\ Occurrences(published, "navsatfix_gnss1_pub_") = 1
               <=> (frame_id \in {"GNSS1", "GNSS"}
                       /\ subs["navsatfix_gnss1_pub_"] > 0)
        /\ Occurrences(published, "navsatfix_gnss2_pub_") = 1
               <=> (frame_id = "GNSS2" /\ subs["navsatfix_gnss2_pub_"] > 0)
        /\ frame_id \notin {"GNSS1", "GNSS", "GNSS2"} => published = <<>>

\* frame id "GNSS" went out on gnss1 alone although gnss2 has a subscriber too
C18_Witness ==
    /\ last_cb = "BESTGNSSPOS"
    /\ frame_id = "GNSS"
    /\ subs["navsatfix_gnss2_pub_"] > 0
    /\ published = <<"navsatfix_gnss1_pub_">>

\* C19: the ODOMETRY observer publishes each output at most once per record
\* and only on a publisher that has a subscriber; the orientation message is
\* published exactly when orientation_pub_ has a subscriber, whatever the
\* subscribers of odometry_enu0_pub_
C19_OwnSubscriberGates ==
    last_cb = "ODOMETRY" =>
        /\ \A pub \in OdometryPublishers :
               /\ Occurrences(published, pub) <= 1
               /\ Occurrences(published, pub) = 1 => subs[pub] > 0
        /\ Occurrences(published, "orientation_pub_") = 1
               <=> subs["orientation_pub_"] > 0

============================================================================
